---------------------------- MODULE Spec2Model ----------------------------
(***************************************************************************)
(* Session lifecycle controller of src/server.js: the module-level flags   *)
(* (qrCodeData, isReady, clientReady, isReconnecting,                      *)
(* initializationAttempts), the Transport event handlers, the bootstrap    *)
(* retry chain, reconnectClient, the periodic health check and the         *)
(* /send-msg, /reconnect and /logout handlers.                             *)
(*                                                                         *)
(* Node runs one callback at a time.  A step of the model is one callback  *)
(* run from its start (or from the await it resumes at) to its next await, *)
(* timer registration or return.  Every callback that is suspended at an   *)
(* await or waiting in a timer is an element of the bag `tasks`.           *)
(*                                                                         *)
(* The handlers of `authenticated`, `remote_session_saved` and             *)
(* `loading_screen` only log and are not modelled.                         *)
(***************************************************************************)
EXTENDS Integers, Sequences, FiniteSets, Bags, TLC

\* Callbacks suspended at an await or in a timer at the same time.
MaxTasks == 2
\* /send-msg requests suspended at a Transport call at the same time.
MaxSends == 1
\* Length of the words over Alphabet that destinations are decorated with.
MaxWord == 3

maxInitAttempts == 3
\* The minimum length of a normalized phone number.
MinDigits == 10

VARIABLES
    qrCodeData,              \* <<>> for null, else the rendered data URL
    isReady,
    clientReady,
    isReconnecting,
    initializationAttempts,
    tasks,                   \* bag of suspended callbacks
    reply,                   \* HTTP response written by the last step, if any
    cycleOpen,               \* history: a reconnectClient() cycle was started and
                             \* no ready / auth_failure / disconnected came since
    undisturbed,             \* history: no client.initialize() call has resolved, no
                             \* ready came, no reconnection or logout was started
    bootCalls,               \* history: client.initialize() calls while undisturbed
    halted                   \* history: the last ready / auth_failure / disconnected
                             \* event was an auth_failure or a disconnected that
                             \* starts no reconnection, and no /reconnect or
                             \* /logout request came since

vars == <<qrCodeData, isReady, clientReady, isReconnecting,
          initializationAttempts, tasks, reply, cycleOpen, undisturbed, bootCalls,
          halted>>

---------------------------------------------------------------------------
\* Strings are sequences of one-character strings.

Suffix == <<"@", "c", ".", "u", "s">>

DigitChars == {"0", "1", "2", "3", "4", "5", "6", "7", "8", "9"}

IsDigit(c) == c \in DigitChars

\* only the usual separators removed: letters stay
StripNonDigits_SeparatorsOnly(s) ==
    SelectSeq(s, LAMBDA c : c \notin {"+", " ", "(", ")", "-"})

\* to.replace(/\D/g, "")
StripNonDigits(s) == SelectSeq(s, IsDigit)

\* s.replace(pat, ""): removes the first occurrence of pat, if there is one.
RemoveFirst(s, pat) ==
    LET at == {i \in 1..(Len(s) - Len(pat) + 1) : SubSeq(s, i, i + Len(pat) - 1) = pat}
    IN  IF at = {} THEN s
        ELSE LET i == CHOOSE k \in at : \A j \in at : k <= j
             IN  SubSeq(s, 1, i - 1) \o SubSeq(s, i + Len(pat), Len(s))

\* The phone number /send-msg derives from `to`.
NormalizePhone(to) == RemoveFirst(StripNonDigits(to), Suffix)

\* the length test dropped: only the empty number is refused
PhoneTooShort_OnlyEmpty(digits) == digits = <<>>

\* !phoneNumber || phoneNumber.length < 10
PhoneTooShort(digits) == digits = <<>> \/ Len(digits) < MinDigits

\* Destinations tried: n digits bare, n digits with "+" and dashes, and n
\* digits with the network suffix already appended.
Digits10 == <<"1", "2", "3", "4", "5", "6", "7", "8", "9", "0">>

DigitAt(i) == Digits10[((i - 1) % 10) + 1]

Plain(n) == [i \in 1..n |-> DigitAt(i)]

Dashed(n) == <<"+">> \o [i \in 1..(2 * n) |-> IF i % 2 = 1 THEN DigitAt((i + 1) \div 2) ELSE "-"]

Suffixed(n) == Plain(n) \o Suffix

Example == <<"+", "1", " ", "(", "2", "3", "4", ")", " ", "5", "6", "7", "-", "8", "9", "0", "0">>

DigitCounts == {0, MinDigits \div 2, MinDigits - 1, MinDigits}

Letters == <<"a", "b", "c">>

Destinations ==
    {Letters} \cup {Plain(n) : n \in DigitCounts}
        \cup {Dashed(n) : n \in {MinDigits - 1, MinDigits}}
        \cup {Suffixed(n) : n \in {MinDigits - 1, MinDigits}}

Text == <<"h", "i">>

\* The request bodies tried: every destination with a message, and one
\* destination without.
Requests ==
    {[to |-> to, message |-> Text] : to \in Destinations}
        \cup {[to |-> Plain(MinDigits), message |-> <<>>]}

\* Destinations for the normalization: every word of at most MaxWord
\* characters over Alphabet, alone (too short), in the middle of MinDigits
\* digits, and in front of MinDigits - 1 digits; the destinations above and
\* the documented example.
Alphabet == {"7", "8", "+", " ", "(", ")", "-", "a"}

RECURSIVE Words(_)
Words(n) ==
    IF n = 0 THEN {<<>>}
    ELSE LET W == Words(n - 1)
         IN  W \cup {Append(w, c) : w \in {x \in W : Len(x) = n - 1}, c \in Alphabet}

Inside(w) ==
    SubSeq(Plain(MinDigits), 1, MinDigits \div 2) \o w
        \o SubSeq(Plain(MinDigits), (MinDigits \div 2) + 1, MinDigits)

Before(w) == w \o Plain(MinDigits - 1)

Strings ==
    LET W == Words(MaxWord) \ {<<>>}
    IN  W \cup {Inside(w) : w \in W} \cup {Before(w) : w \in W} \cup Destinations
          \cup {Example}

\* NormalizePhone over the destinations of Requests, computed once
phoneNumber == [to \in Destinations |-> NormalizePhone(to)]

\* the phone number /send-msg derives from `to`, looked up where it is tabulated
phoneNumberOf(to) ==
    IF to \in Destinations THEN phoneNumber[to] ELSE NormalizePhone(to)

---------------------------------------------------------------------------
\* Suspended callbacks.  Every task has the same fields; a field a task does
\* not use holds its default.

NoTask == [pc |-> "", chain |-> "", qr |-> "", to |-> <<>>, lookup |-> "", late |-> FALSE]

\* await client.initialize() in initializeClient; chain "rc" when the call was
\* made by reconnectClient's timer, "logout" when by the timer of /logout,
\* "boot" otherwise.
InitTask(chain) == [NoTask EXCEPT !.pc = "initialize", !.chain = chain]

\* the 5000 ms timer of initializeClient
RetryTask(chain) == [NoTask EXCEPT !.pc = "retryTimer", !.chain = chain]

\* await client.destroy() in reconnectClient
DestroyTask == [NoTask EXCEPT !.pc = "rcDestroy"]

\* the 2000 ms timer of reconnectClient
SettleTask == [NoTask EXCEPT !.pc = "rcTimer"]

\* await qrcode.toDataURL(qr) in the qr handler
RenderTask(p) == [NoTask EXCEPT !.pc = "toDataURL", !.qr = p]

\* client.getState() pending in the health check; late: the tick fired while
\* a reconnection cycle was open (history)
StateTask(late) == [NoTask EXCEPT !.pc = "getState", !.late = late]

\* a POST /send-msg request received, its handler not yet run
RequestTask(to) == [NoTask EXCEPT !.pc = "request", !.to = to]

\* await client.getNumberId(whatsappNumber) in /send-msg
LookupTask(to) == [NoTask EXCEPT !.pc = "getNumberId", !.to = to]

\* await client.sendMessage(whatsappNumber, message) in /send-msg; lookup: how
\* the getNumberId call ended (history)
SendTask(to, lookup) == [NoTask EXCEPT !.pc = "sendMessage", !.to = to, !.lookup = lookup]

\* /logout: await client.destroy(), await fs.rm(), the 2000 ms timer
LogoutDestroyTask == [NoTask EXCEPT !.pc = "loDestroy"]

LogoutRmTask == [NoTask EXCEPT !.pc = "loRm"]

LogoutTimerTask == [NoTask EXCEPT !.pc = "loTimer"]

Pending(pc) == {t \in BagToSet(tasks) : t.pc = pc}

\* how many suspended callbacks of a bag are at pc
Count(bag, pc) ==
    BagCardinality([t \in {x \in BagToSet(bag) : x.pc = pc} |-> CopiesIn(t, bag)])

---------------------------------------------------------------------------
\* The program state as one record, so that a handler is a function on it.

Cur ==
    [qrCodeData |-> qrCodeData, isReady |-> isReady, clientReady |-> clientReady,
     isReconnecting |-> isReconnecting,
     initializationAttempts |-> initializationAttempts, tasks |-> tasks]

Await(s, t) == [s EXCEPT !.tasks = @ (+) SetToBag({t})]

Resume(s, t) == [s EXCEPT !.tasks = @ (-) SetToBag({t})]

NoReply == [status |-> 0, kind |-> "none"]

Reply(status, kind) == [status |-> status, kind |-> kind]

\* One step: the program state becomes s, the step wrote response r, and the
\* history variables follow.  terminal: the step is a ready, auth_failure or
\* disconnected event; disturbs: the step ends the run of bootstrap failures
\* (so does every step that starts a reconnection).
Step(s, r, terminal, disturbs) ==
    LET started == Count(s.tasks, "rcDestroy") > Count(tasks, "rcDestroy")
        called  == Count(s.tasks, "initialize") > Count(tasks, "initialize")
        quiet   == undisturbed /\ ~started /\ ~disturbs
        manual  == \/ r.kind \in {"ReconnectInProgress", "ReconnectInitiated"}
                   \/ Count(s.tasks, "loDestroy") > Count(tasks, "loDestroy")
    IN  /\ reply' = r
        /\ tasks' = s.tasks
        /\ BagCardinality(s.tasks) <= MaxTasks
        /\ Count(s.tasks, "getNumberId") + Count(s.tasks, "sendMessage") <= MaxSends
        /\ qrCodeData' = s.qrCodeData
        /\ isReady' = s.isReady
        /\ clientReady' = s.clientReady
        /\ isReconnecting' = s.isReconnecting
        /\ initializationAttempts' = s.initializationAttempts
        /\ cycleOpen' = IF started THEN TRUE ELSE IF terminal THEN FALSE ELSE cycleOpen
        /\ undisturbed' = quiet
        /\ bootCalls' = IF quiet THEN bootCalls + (IF called THEN 1 ELSE 0) ELSE 0
        /\ halted' = IF terminal THEN ~s.clientReady /\ ~started
                      ELSE IF manual THEN FALSE ELSE halted

---------------------------------------------------------------------------
\* initializeClient and reconnectClient

\* initializeClient up to its await
initializeClient(s, chain) ==
    Await([s EXCEPT !.isReconnecting = FALSE], InitTask(chain))

\* the catch block with <= for <: one retry too many
initializeFailed_OneMore(s, chain) ==
    LET s1 == [s EXCEPT !.initializationAttempts = @ + 1]
    IN  IF s1.initializationAttempts <= maxInitAttempts
        THEN Await(s1, RetryTask(chain))
        ELSE s1

\* the catch block of initializeClient
initializeFailed(s, chain) ==
    LET s1 == [s EXCEPT !.initializationAttempts = @ + 1]
    IN  IF s1.initializationAttempts < maxInitAttempts
        THEN Await(s1, RetryTask(chain))
        ELSE s1

\* reconnectClient without its isReconnecting test
reconnectClient_NoGuard(s) ==
    Await([s EXCEPT !.isReconnecting = TRUE, !.initializationAttempts = 0], DestroyTask)

\* reconnectClient up to its await
reconnectClient(s) ==
    IF s.isReconnecting
    THEN s
    ELSE Await([s EXCEPT !.isReconnecting = TRUE, !.initializationAttempts = 0],
               DestroyTask)

\* client.initialize() resolves: initializeClient returns
InitializeResolves ==
    \E t \in Pending("initialize") :
        Step(Resume(Cur, t), NoReply, FALSE, TRUE)

\* client.initialize() rejects
InitializeRejects ==
    \E t \in Pending("initialize") :
        Step(initializeFailed(Resume(Cur, t), t.chain), NoReply, FALSE, FALSE)

\* the retry timer fires
RetryFires ==
    \E t \in Pending("retryTimer") :
        Step(initializeClient(Resume(Cur, t), t.chain), NoReply, FALSE, FALSE)

\* a rejection of client.destroy() escaping reconnectClient: no settle timer
DestroyReturns_Throws ==
    \E t \in Pending("rcDestroy") :
        Step(Resume(Cur, t), NoReply, FALSE, FALSE)

\* client.destroy() of reconnectClient resolves or rejects: either way the
\* settle timer is registered
DestroyReturns ==
    \E t \in Pending("rcDestroy") :
        Step(Await(Resume(Cur, t), SettleTask), NoReply, FALSE, FALSE)

\* the settle timer fires
SettleFires ==
    \E t \in Pending("rcTimer") :
        Step(initializeClient(Resume(Cur, t), "rc"), NoReply, FALSE, FALSE)

---------------------------------------------------------------------------
\* Transport events

\* pairing payloads the Transport emits
QrPayloads == {"2@a"}

\* qrcode.toDataURL(qr)
toDataURL(qr) == <<"data:image/png;base64", qr>>

\* client.on("qr") up to its await
Qr(p) ==
    /\ Step(Await(Cur, RenderTask(p)), NoReply, FALSE, FALSE)

\* qrcode.toDataURL resolves: the handler stores the data URL
QrRendered ==
    \E t \in Pending("toDataURL") :
        Step([Resume(Cur, t) EXCEPT !.qrCodeData = toDataURL(t.qr)], NoReply, FALSE, FALSE)

\* qrcode.toDataURL rejects: the handler logs
QrRenderFails ==
    \E t \in Pending("toDataURL") :
        Step(Resume(Cur, t), NoReply, FALSE, FALSE)

\* client.on("ready")
onReady(s) ==
    [s EXCEPT !.isReady = TRUE, !.clientReady = TRUE, !.isReconnecting = FALSE,
              !.qrCodeData = <<>>]

Ready ==
    /\ Step(onReady(Cur), NoReply, TRUE, TRUE)

\* client.on("auth_failure")
onAuthFailure(s) ==
    [s EXCEPT !.isReady = FALSE, !.clientReady = FALSE, !.isReconnecting = FALSE,
              !.qrCodeData = <<>>]

AuthFailure ==
    /\ Step(onAuthFailure(Cur), NoReply, TRUE, FALSE)

Reasons == {"NAVIGATION", "CONNECTION_CLOSED", "LOGOUT"}

Recoverable(reason) == reason = "NAVIGATION" \/ reason = "CONNECTION_CLOSED"

\* client.on("disconnected")
onDisconnected(s, reason) ==
    LET s1 == [s EXCEPT !.isReady = FALSE, !.clientReady = FALSE,
                        !.isReconnecting = FALSE, !.qrCodeData = <<>>]
    IN  IF Recoverable(reason) THEN reconnectClient(s1) ELSE s1

Disconnected(reason) ==
    /\ Step(onDisconnected(Cur, reason), NoReply, TRUE, FALSE)

---------------------------------------------------------------------------
\* The periodic health check

SessionStates == {"CONNECTED", "OPENING", "TIMEOUT"}

\* the setInterval callback: asks for the state when ready and not reconnecting
HealthTick ==
    /\ clientReady /\ ~isReconnecting
    /\ Step(Await(Cur, StateTask(cycleOpen)), NoReply, FALSE, FALSE)

\* the .then callback
onState(s, state) == IF state = "CONNECTED" THEN s ELSE reconnectClient(s)

HealthStateOf(t, state) ==
    /\ Step(onState(Resume(Cur, t), state), NoReply, FALSE, FALSE)

HealthState(state) == \E t \in Pending("getState") : HealthStateOf(t, state)

\* the .catch callback
onStateError(s) == IF ~s.isReconnecting THEN reconnectClient(s) ELSE s

HealthErrorOf(t) ==
    /\ Step(onStateError(Resume(Cur, t)), NoReply, FALSE, FALSE)

HealthError == \E t \in Pending("getState") : HealthErrorOf(t)

---------------------------------------------------------------------------
\* GET /connect

\* the handler with its two tests swapped: a stored QR code is looked for first
connectResponse_QrFirst(s) ==
    IF s.qrCodeData # <<>> THEN Reply(200, "QrReady")
    ELSE IF s.clientReady THEN Reply(200, "AlreadyConnected")
    ELSE Reply(202, "Generating")

\* the response: "connected", or "qr_ready" with qrCodeData, or "generating"
connectResponse(s) ==
    IF s.clientReady THEN Reply(200, "AlreadyConnected")
    ELSE IF s.qrCodeData # <<>> THEN Reply(200, "QrReady")
    ELSE Reply(202, "Generating")

Connect ==
    /\ Step(Cur, connectResponse(Cur), FALSE, FALSE)

---------------------------------------------------------------------------
\* POST /reconnect

Reconnect ==
    IF isReconnecting
    THEN Step(Cur, Reply(409, "ReconnectInProgress"), FALSE, FALSE)
    ELSE Step(reconnectClient(Cur), Reply(200, "ReconnectInitiated"), FALSE, FALSE)

---------------------------------------------------------------------------
\* POST /logout

\* up to await client.destroy()
Logout ==
    /\ Step(Await([Cur EXCEPT !.isReconnecting = TRUE, !.clientReady = FALSE,
                              !.isReady = FALSE, !.qrCodeData = <<>>],
                  LogoutDestroyTask),
            NoReply, FALSE, TRUE)

\* client.destroy() resolves or rejects: on to await fs.rm()
LogoutDestroyed ==
    \E t \in Pending("loDestroy") :
        Step(Await(Resume(Cur, t), LogoutRmTask), NoReply, FALSE, FALSE)

\* a failed fs.rm() escaping to the outer catch: 500 and no timer
LogoutRemoved_Throws ==
    \E t \in Pending("loRm") :
        Step(Resume(Cur, t), Reply(500, "LogoutFailed"), FALSE, FALSE)

\* fs.rm() resolves or rejects: the counter is reset, the timer registered and
\* the response written
LogoutRemoved ==
    \E t \in Pending("loRm") :
        Step(Await([Resume(Cur, t) EXCEPT !.initializationAttempts = 0], LogoutTimerTask),
             Reply(200, "LoggedOut"), FALSE, FALSE)

\* the timer fires
LogoutTimerFires ==
    \E t \in Pending("loTimer") :
        Step(initializeClient([Resume(Cur, t) EXCEPT !.isReconnecting = FALSE], "logout"),
             NoReply, FALSE, FALSE)

---------------------------------------------------------------------------
\* POST /send-msg

\* An error message is a sequence of phrases; includes() looks for a phrase.
Includes(errorMsg, phrase) == \E i \in 1..Len(errorMsg) : errorMsg[i] = phrase

ErrorMessages ==
    {<<"Session closed">>, <<"Target closed">>, <<"Protocol error">>,
     <<"No LID for user">>, <<"Protocol error", "No LID for user">>,
     <<"t">>, <<>>, <<"Evaluation failed">>}

\* the first test of the catch block
IsSessionError(errorMsg) ==
    \/ Includes(errorMsg, "Session closed")
    \/ Includes(errorMsg, "Target closed")
    \/ Includes(errorMsg, "Protocol error")

\* the catch block with the "No LID for user" test first
Classify_LidFirst(errorMsg) ==
    IF Includes(errorMsg, "No LID for user") THEN "NotOnPlatform"
    ELSE IF IsSessionError(errorMsg) THEN "SessionLost"
    ELSE IF errorMsg # <<>> /\ errorMsg # <<"t">> THEN "UnknownTransportError"
    ELSE IF errorMsg = <<"t">> THEN "ContactNotFound"
    ELSE "SendFailed"

\* the catch block of /send-msg: the response kind
Classify(errorMsg) ==
    IF IsSessionError(errorMsg) THEN "SessionLost"
    ELSE IF Includes(errorMsg, "No LID for user") THEN "NotOnPlatform"
    ELSE IF errorMsg # <<>> /\ errorMsg # <<"t">> THEN "UnknownTransportError"
    ELSE IF errorMsg = <<"t">> THEN "ContactNotFound"
    ELSE "SendFailed"

\* the catch block reconnecting on every failure, whatever its message
onSendError_Always(s, errorMsg) ==
    IF ~s.isReconnecting THEN reconnectClient(s) ELSE s

\* the catch block of /send-msg: the recovery action
onSendError(s, errorMsg) ==
    IF IsSessionError(errorMsg) /\ ~s.isReconnecting THEN reconnectClient(s) ELSE s

\* what the handler answers before any Transport call, if it answers there
Validate(s, to, message) ==
    IF to = <<>> \/ message = <<>> THEN Reply(400, "MissingFields")
    ELSE IF ~s.clientReady
         THEN IF s.isReconnecting THEN Reply(503, "NotReadyReconnecting")
              ELSE Reply(503, "NotReady")
    ELSE IF PhoneTooShort(phoneNumberOf(to)) THEN Reply(400, "InvalidRecipient")
    ELSE NoReply

\* the handler up to await client.getNumberId(), or to its early return
SendMsgFrom(s, to, message) ==
    LET r == Validate(s, to, message)
    IN  IF r # NoReply
        THEN Step(s, r, FALSE, FALSE)
        ELSE Step(Await(s, LookupTask(phoneNumberOf(to) \o Suffix)), NoReply, FALSE, FALSE)

\* a request arrives and its handler runs
SendMsg(to, message) ==
    /\ SendMsgFrom(Cur, to, message)

\* the handler runs on a request received earlier
SendMsgOf(t) ==
    /\ SendMsgFrom(Resume(Cur, t), t.to, Text)

SendMsgReceived == \E t \in Pending("request") : SendMsgOf(t)

\* numberId._serialized: the canonical identity the Transport returns
Serialized(whatsappNumber) == <<"id">> \o whatsappNumber

\* getNumberId resolves with an identity (found) or with null, or rejects
LookupOutcomes == {"found", "null", "threw"}

\* a rejected lookup ending the request: no client.sendMessage()
afterLookup_GiveUp(s, t, outcome) ==
    IF outcome = "threw" THEN s
    ELSE Await(s, SendTask(IF outcome = "found" THEN Serialized(t.to) ELSE t.to, outcome))

\* after the inner try: on to await client.sendMessage()
afterLookup(s, t, outcome) ==
    Await(s, SendTask(IF outcome = "found" THEN Serialized(t.to) ELSE t.to, outcome))

LookupReturns(outcome) ==
    \E t \in Pending("getNumberId") :
        Step(afterLookup(Resume(Cur, t), t, outcome), NoReply, FALSE, FALSE)

\* client.sendMessage resolves
SendResolves ==
    \E t \in Pending("sendMessage") :
        Step(Resume(Cur, t), Reply(200, "Sent"), FALSE, FALSE)

\* client.sendMessage rejects
SendRejects(errorMsg) ==
    \E t \in Pending("sendMessage") :
        Step(onSendError(Resume(Cur, t), errorMsg), Reply(500, Classify(errorMsg)), FALSE, FALSE)

---------------------------------------------------------------------------
Init ==
    /\ qrCodeData = <<>>
    /\ isReady = FALSE
    /\ clientReady = FALSE
    /\ isReconnecting = FALSE
    /\ initializationAttempts = 0
    /\ tasks = SetToBag({InitTask("boot")})
    /\ reply = NoReply
    /\ cycleOpen = FALSE
    /\ undisturbed = TRUE
    /\ bootCalls = 1
    /\ halted = FALSE

Next ==
    \/ InitializeResolves
    \/ InitializeRejects
    \/ RetryFires
    \/ DestroyReturns
    \/ SettleFires
    \/ \E p \in QrPayloads : Qr(p)
    \/ QrRendered
    \/ QrRenderFails
    \/ Ready
    \/ AuthFailure
    \/ \E reason \in Reasons : Disconnected(reason)
    \/ HealthTick
    \/ \E state \in SessionStates : HealthState(state)
    \/ HealthError
    \/ Connect
    \/ Reconnect
    \/ Logout
    \/ LogoutDestroyed
    \/ LogoutRemoved
    \/ LogoutTimerFires
    \/ \E req \in Requests : SendMsg(req.to, req.message)
    \/ \E outcome \in LookupOutcomes : LookupReturns(outcome)
    \/ SendResolves
    \/ \E errorMsg \in ErrorMessages : SendRejects(errorMsg)

Spec == Init /\ [][Next]_vars

\* The promise of reconnectClient's client.destroy() settles and its timer
\* fires.
CycleFairSpec ==
    /\ Spec
    /\ WF_vars(DestroyReturns)
    /\ WF_vars(SettleFires)

\* /send-msg alone: a ready client that has received one request, for each
\* destination of Strings.
SendInit ==
    /\ qrCodeData = <<>>
    /\ isReady = TRUE
    /\ clientReady = TRUE
    /\ isReconnecting = FALSE
    /\ initializationAttempts = 0
    /\ \E to \in Strings : tasks = SetToBag({RequestTask(to)})
    /\ reply = NoReply
    /\ cycleOpen = FALSE
    /\ undisturbed = FALSE
    /\ bootCalls = 0
    /\ halted = FALSE

SendNext ==
    \/ SendMsgReceived
    \/ \E outcome \in LookupOutcomes : LookupReturns(outcome)
    \/ SendResolves
    \/ \E errorMsg \in ErrorMessages : SendRejects(errorMsg)

SendSpec == SendInit /\ [][SendNext]_vars

\* The promises of /logout's client.destroy() and fs.rm() settle and its
\* timer fires.
FairSpec ==
    /\ Spec
    /\ WF_vars(LogoutDestroyed)
    /\ WF_vars(LogoutRemoved)
    /\ WF_vars(LogoutTimerFires)

---------------------------------------------------------------------------
\* Properties

\* the readiness gate of /send-msg
isAvailableForSend == clientReady

Destroys(bag) == Count(bag, "rcDestroy")

\* reconnection cycles under way: in the awaited destroy, in the settle delay
\* or in the re-bootstrap (the initialize() call or its retry timer)
CyclesInFlight(bag) ==
    Count(bag, "rcDestroy") + Count(bag, "rcTimer")
        + CopiesIn(InitTask("rc"), bag) + CopiesIn(RetryTask("rc"), bag)

\* C1: after a recoverable `disconnected` event is processed, wherever it
\* lands, at most one reconnection cycle (destroy, settle delay,
\* re-initialize) is in flight.
C1_OneCycleInFlight ==
    [][\A reason \in Reasons :
         (Recoverable(reason) /\ Disconnected(reason)) => CyclesInFlight(tasks') <= 1]_vars

\* C2: a reconnectClient() call made while isReconnecting is set (the health
\* check's .then callback makes one) returns at once: it starts no destroy,
\* registers no timer and changes no flag; a second call right after a first
\* changes nothing the first left; and every step that starts a
\* reconnection's destroy ends with isReconnecting set, so the flag is up
\* before the first await.
C2_SecondCallNoOp ==
    [][/\ \A state \in SessionStates \ {"CONNECTED"} : \A t \in Pending("getState") :
            (isReconnecting /\ HealthStateOf(t, state)) => Cur' = Resume(Cur, t)
       /\ reconnectClient(reconnectClient(Cur)) = reconnectClient(Cur)
       /\ Destroys(tasks') > Destroys(tasks) => isReconnecting']_vars

\* a reconnection is in its awaited destroy with the flag set, and a health
\* check callback that will call reconnectClient() again is pending
C2_Witness ==
    isReconnecting /\ Destroys(tasks) = 1 /\ Pending("getState") # {}

BootstrapIdle == Count(tasks, "initialize") = 0 /\ Count(tasks, "retryTimer") = 0

\* C3: while every client.initialize() call has rejected, the counter started
\* at 0 and no reconnection or logout was started, at most maxInitAttempts
\* calls are made; when the chain has stopped, exactly maxInitAttempts calls
\* were made, the counter is maxInitAttempts and the client is not ready; and
\* once the counter is maxInitAttempts no call or retry timer is pending.
C3_BoundedBootstrap ==
    undisturbed =>
        /\ bootCalls <= maxInitAttempts
        /\ BootstrapIdle =>
              /\ bootCalls = maxInitAttempts
              /\ initializationAttempts = maxInitAttempts
              /\ ~clientReady
        /\ initializationAttempts >= maxInitAttempts => BootstrapIdle

C3_Witness ==
    undisturbed /\ BootstrapIdle /\ bootCalls = maxInitAttempts

\* C4: a `ready` event leaves qrCodeData null and the attempt counter 0.
C4_ReadyResets ==
    [][Ready => (qrCodeData' = <<>> /\ initializationAttempts' = 0)]_vars

\* C5: the client is never available for send while a QR payload is stored.
C5_NoQrWhileReady == qrCodeData # <<>> => ~isAvailableForSend

\* C6: a health check whose tick fired while a reconnection cycle was open,
\* and which reports while it still is, starts no reconnection.
C6_NoSecondCycleFromTick ==
    [][\A t \in Pending("getState") :
         (/\ cycleOpen /\ t.late
          /\ \/ \E state \in SessionStates : HealthStateOf(t, state)
             \/ HealthErrorOf(t))
         => Destroys(tasks') <= Destroys(tasks)]_vars

\* C7: while a reconnection cycle is in flight with isReconnecting set, the
\* client is not available for send.
C7_NotAvailableWhileReconnecting ==
    (cycleOpen /\ isReconnecting) => ~isAvailableForSend

\* C8: a POST /reconnect that arrives while a reconnection cycle is open is
\* answered 409 and starts no destroy.
C8_ManualConflict ==
    [][(cycleOpen /\ Reconnect) =>
          (reply' = Reply(409, "ReconnectInProgress") /\ Destroys(tasks') = Destroys(tasks))]_vars

\* C9: when getNumberId returns null the request is answered NotOnPlatform
\* and sendMessage is not called.
C9_UnregisteredFailsFast ==
    [][LookupReturns("null") =>
          (reply'.kind = "NotOnPlatform"
           /\ Count(tasks', "sendMessage") = Count(tasks, "sendMessage"))]_vars

\* the requests whose destination has fewer than MinDigits digits when normalized
ShortRequests == {req \in Requests : Len(phoneNumber[req.to]) < MinDigits}

\* C10 as stated: every request whose destination normalizes to fewer than
\* MinDigits digits is answered InvalidRecipient, with no Transport call and
\* the session unchanged.
C10_ShortIsInvalid ==
    [][\A req \in {q \in ShortRequests : q.to # <<>> /\ q.message # <<>>} :
         SendMsg(req.to, req.message) =>
             (reply' = Reply(400, "InvalidRecipient") /\ Cur' = Cur)]_vars

\* C10 amended: every request whose destination normalizes to fewer than
\* MinDigits digits makes no Transport call and leaves the session unchanged;
\* when the client is ready and `to` and `message` are not empty it is
\* answered InvalidRecipient.
C10_ShortIsInvalidWhenReady ==
    [][\A req \in ShortRequests :
         SendMsg(req.to, req.message) =>
             /\ Cur' = Cur
             /\ (clientReady /\ req.to # <<>> /\ req.message # <<>>) =>
                    reply' = Reply(400, "InvalidRecipient")]_vars

C10_Witness == reply = Reply(400, "InvalidRecipient") /\ clientReady

\* the flags and the counter
Session == <<qrCodeData, isReady, clientReady, isReconnecting, initializationAttempts>>

\* client.destroy() and client.initialize() calls in flight, and the timers
\* that lead to one
Recovery(bag) ==
    LET pcs == {"rcDestroy", "rcTimer", "loDestroy", "loTimer", "initialize", "retryTimer"}
    IN  BagCardinality([t \in {x \in BagToSet(bag) : x.pc \in pcs} |-> CopiesIn(t, bag)])

\* the steps of a /send-msg request
SendStep ==
    \/ \E req \in Requests : SendMsg(req.to, req.message)
    \/ \E outcome \in LookupOutcomes : LookupReturns(outcome)
    \/ SendResolves
    \/ \E errorMsg \in ErrorMessages : SendRejects(errorMsg)

NoSideEffectKinds ==
    {"NotReady", "NotReadyReconnecting", "InvalidRecipient", "NotOnPlatform",
     "UnknownTransportError"}

\* C11: a /send-msg step that answers NotReady, InvalidRecipient,
\* NotOnPlatform or UnknownTransportError leaves qrCodeData, the readiness
\* flags, isReconnecting and the counter as they were and starts no
\* client.destroy(), no client.initialize() and no timer leading to one; a
\* /send-msg step that changes any of these answers SessionLost.
C11_SendFrame ==
    [][/\ reply'.kind \in NoSideEffectKinds =>
              (Session' = Session /\ Recovery(tasks') = Recovery(tasks))
       /\ \/ reply'.kind = "SessionLost"
          \/ Session' = Session /\ Recovery(tasks') = Recovery(tasks)
          \/ ~SendStep]_vars

\* a send failed with a message that is no session-loss signature while the
\* client was ready and no reconnection was running
C11_Witness ==
    reply = Reply(500, "UnknownTransportError") /\ clientReady /\ ~isReconnecting

LogoutInitializes(bag) == CopiesIn(InitTask("logout"), bag)

\* C12: /logout first calls client.destroy() and nothing else; fs.rm() is
\* called only when that destroy has resolved or rejected, the timer is
\* registered only when fs.rm() has resolved or rejected, and
\* client.initialize() is called only when the timer fires (or a retry timer
\* of that bootstrap does); and once /logout awaits its destroy,
\* client.initialize() is eventually called by its timer, with isReconnecting
\* false.
C12_LogoutSequence ==
    /\ [][/\ Logout =>
                /\ Count(tasks', "loDestroy") = Count(tasks, "loDestroy") + 1
                /\ Count(tasks', "loRm") = Count(tasks, "loRm")
                /\ Count(tasks', "loTimer") = Count(tasks, "loTimer")
                /\ Count(tasks', "initialize") = Count(tasks, "initialize")
          /\ Count(tasks', "loRm") > Count(tasks, "loRm") =>
                Count(tasks', "loDestroy") < Count(tasks, "loDestroy")
          /\ Count(tasks', "loTimer") > Count(tasks, "loTimer") =>
                Count(tasks', "loRm") < Count(tasks, "loRm")
          /\ LogoutInitializes(tasks') > LogoutInitializes(tasks) =>
                \/ Count(tasks', "loTimer") < Count(tasks, "loTimer")
                \/ CopiesIn(RetryTask("logout"), tasks')
                       < CopiesIn(RetryTask("logout"), tasks)]_vars
    /\ (Count(tasks, "loDestroy") > 0) ~>
           (LogoutInitializes(tasks) > 0 /\ ~isReconnecting)

\* the timer of a /logout has fired: client.initialize() is pending and the
\* flag /logout raised is down
C12_Witness == LogoutInitializes(tasks) > 0 /\ ~isReconnecting

\* C13: GET /connect answers "connected" whenever clientReady is true, also
\* when a QR code is stored; it answers with the QR code only when clientReady
\* is false and a QR code is stored, and "generating" when clientReady is
\* false and none is stored; it changes nothing.
C13_NoQrWhenReady ==
    [][/\ reply'.kind = "QrReady" => (~clientReady /\ qrCodeData # <<>>)
       /\ Connect =>
             /\ Cur' = Cur
             /\ clientReady => reply' = Reply(200, "AlreadyConnected")
             /\ (~clientReady /\ qrCodeData # <<>>) => reply' = Reply(200, "QrReady")
             /\ (~clientReady /\ qrCodeData = <<>>) => reply' = Reply(202, "Generating")]_vars

\* /connect was asked while the client was ready and a stale QR code was stored
C13_Witness ==
    clientReady /\ qrCodeData # <<>> /\ reply = Reply(200, "AlreadyConnected")

\* the decimal digits of a string, in their order
RECURSIVE DigitsOf(_)
DigitsOf(s) ==
    IF s = <<>> THEN <<>>
    ELSE (IF Head(s) \in DigitChars THEN <<Head(s)>> ELSE <<>>) \o DigitsOf(Tail(s))

ExampleDigits == <<"1", "2", "3", "4", "5", "6", "7", "8", "9", "0", "0">>

\* C14: the phone number /send-msg derives from a destination is the
\* destination's decimal digits in their order ("+1 (234) 567-8900" gives
\* "12345678900"); when the client is ready and there are at least MinDigits
\* of them, the handler calls client.getNumberId with these digits followed
\* by "@c.us" and nothing else changes.
C14_DigitsInOrder ==
    /\ NormalizePhone(Example) = ExampleDigits
    /\ [][\A t \in Pending("request") :
             SendMsgOf(t) =>
                 /\ phoneNumberOf(t.to) = DigitsOf(t.to)
                 /\ (clientReady /\ Len(DigitsOf(t.to)) >= MinDigits) =>
                        Cur' = Await(Resume(Cur, t),
                                     LookupTask(DigitsOf(t.to) \o Suffix))]_vars

\* client.getNumberId is pending with the documented example's digits
C14_Witness == LookupTask(ExampleDigits \o Suffix) \in BagToSet(tasks)

\* every client.initialize() call and retry timer pending is a reconnection's
OnlyCycleBootstrap ==
    Count(tasks, "initialize") + Count(tasks, "retryTimer")
        = CopiesIn(InitTask("rc"), tasks) + CopiesIn(RetryTask("rc"), tasks)

\* the steps of a reconnection cycle after reconnectClient() has set the flag
CycleStep ==
    \/ DestroyReturns
    \/ SettleFires
    \/ OnlyCycleBootstrap /\ (RetryFires \/ InitializeRejects \/ InitializeResolves)

\* C15: while a reconnection cycle is open, no step of the cycle (the return
\* of its destroy, its settle timer and the client.initialize() call it
\* makes, a bootstrap failure, a retry) takes isReconnecting from true to
\* false.
C15_FlagHeldByCycle ==
    [][(cycleOpen /\ isReconnecting /\ CycleStep) => isReconnecting']_vars

\* client.destroy() and client.initialize() calls in flight
Calls(bag) ==
    Count(bag, "rcDestroy") + Count(bag, "loDestroy") + Count(bag, "initialize")

\* C16: when a step starts a client.destroy() or client.initialize() call,
\* that call is the only recovery work there is: no other destroy or
\* initialize call is in flight, no settle or retry timer is pending and no
\* /logout is deleting the credential store.
C16_NoConcurrentRecovery ==
    [][Calls(tasks') > Calls(tasks) =>
          Recovery(tasks') + Count(tasks', "loRm") <= 1]_vars

\* the bootstrap has given up: the counter is at maxInitAttempts and no
\* call, timer or logout is under way
Failed ==
    /\ initializationAttempts >= maxInitAttempts
    /\ Recovery(tasks) + Count(tasks, "loRm") = 0

\* the steps nobody asked for: timers and health check callbacks
AutonomousStep ==
    \/ SettleFires
    \/ RetryFires
    \/ \E state \in SessionStates : HealthState(state)
    \/ HealthError

\* C17: once the bootstrap of a reconnection has given up, and no `ready`,
\* `auth_failure` or `disconnected` event came since the reconnection
\* started, no timer and no health check callback starts a client.destroy()
\* or client.initialize() call.
C17_FailedStaysFailed ==
    [][(Failed /\ cycleOpen /\ AutonomousStep) => Calls(tasks') <= Calls(tasks)]_vars

\* the steps the program takes on its own after a halt: timers, health check
\* callbacks and bootstrap failures
HaltedStep ==
    \/ AutonomousStep
    \/ InitializeRejects

\* C18: after an `auth_failure` event, or a `disconnected` event with a
\* reason other than NAVIGATION and CONNECTION_CLOSED, and until a /reconnect
\* or /logout request or another of these events, clientReady is false and
\* no timer, health check callback or bootstrap failure starts a
\* client.destroy() or client.initialize() call.
C18_HaltedStaysHalted ==
    /\ [](halted => ~clientReady)
    /\ [][(halted /\ HaltedStep) => Calls(tasks') <= Calls(tasks)]_vars

\* a /logout is between its client.destroy() and its client.initialize()
LogoutInFlight(bag) ==
    Count(bag, "loDestroy") + Count(bag, "loRm") + Count(bag, "loTimer") > 0

\* C19 as stated: a client.sendMessage failure whose message holds a
\* session-loss signature is answered SessionLost, also when it holds "No LID
\* for user" too, and afterwards a reconnection cycle is in flight, started
\* by this step unless one was in flight before; a failure whose message
\* holds no such signature is not answered SessionLost and starts nothing.
C19_SessionLostFirst ==
    [][\A errorMsg \in ErrorMessages :
         SendRejects(errorMsg) =>
             IF IsSessionError(errorMsg)
             THEN /\ reply' = Reply(500, "SessionLost")
                  /\ CyclesInFlight(tasks') >= 1
                  /\ Destroys(tasks') > Destroys(tasks) \/ CyclesInFlight(tasks) >= 1
             ELSE /\ reply'.kind # "SessionLost"
                  /\ Session' = Session
                  /\ Recovery(tasks') = Recovery(tasks)]_vars

\* C19 amended: as above, but what is in flight afterwards is a reconnection
\* cycle or the destroy-and-initialize sequence of a /logout, which holds
\* isReconnecting too.
C19_SessionLostFirstOrLogout ==
    [][\A errorMsg \in ErrorMessages :
         SendRejects(errorMsg) =>
             IF IsSessionError(errorMsg)
             THEN /\ reply' = Reply(500, "SessionLost")
                  /\ CyclesInFlight(tasks') >= 1 \/ LogoutInFlight(tasks')
                  /\ \/ Destroys(tasks') > Destroys(tasks)
                     \/ CyclesInFlight(tasks) >= 1
                     \/ LogoutInFlight(tasks)
             ELSE /\ reply'.kind # "SessionLost"
                  /\ Session' = Session
                  /\ Recovery(tasks') = Recovery(tasks)]_vars

\* a send failed with a session-loss signature and started a reconnection
C19_Witness ==
    reply = Reply(500, "SessionLost") /\ Destroys(tasks) = 1 /\ isReconnecting

\* a phone number of at least MinDigits digits followed by "@c.us"
IsWhatsappNumber(id) ==
    /\ Len(id) >= MinDigits + Len(Suffix)
    /\ SubSeq(id, Len(id) - Len(Suffix) + 1, Len(id)) = Suffix
    /\ \A i \in 1..(Len(id) - Len(Suffix)) : IsDigit(id[i])

\* C20: when client.getNumberId rejects, the handler goes on to one
\* client.sendMessage call whose recipient is the identifier the lookup was
\* given, the phone number followed by "@c.us"; when that call resolves the
\* request is answered Sent, when it rejects it is answered with the
\* classified failure, and no further client.sendMessage call is made for it.
C20_SendAfterFailedLookup ==
    [][/\ LookupReturns("threw") =>
             \E t \in Pending("getNumberId") :
                 /\ IsWhatsappNumber(t.to)
                 /\ Cur' = Await(Resume(Cur, t), SendTask(t.to, "threw"))
                 /\ reply' = NoReply
       /\ \A t \in {x \in Pending("sendMessage") : x.lookup = "threw"} :
             /\ IsWhatsappNumber(t.to)
             /\ (SendResolves /\ tasks' = tasks (-) SetToBag({t})) =>
                    reply' = Reply(200, "Sent")
             /\ \A errorMsg \in ErrorMessages :
                    (SendRejects(errorMsg) /\ CopiesIn(t, tasks') < CopiesIn(t, tasks)) =>
                        /\ reply' = Reply(500, Classify(errorMsg))
                        /\ Count(tasks', "sendMessage") = Count(tasks, "sendMessage") - 1]_vars

\* client.sendMessage is pending after a lookup that rejected
C20_Witness ==
    \E t \in Pending("sendMessage") : t.lookup = "threw" /\ IsWhatsappNumber(t.to)

CycleInitializes(bag) == CopiesIn(InitTask("rc"), bag)

\* C21: once reconnectClient() awaits its client.destroy(), the cycle's
\* client.initialize() call is eventually made, with isReconnecting false,
\* whether or not any Transport event arrives.
C21_CycleProgress ==
    (Destroys(tasks) > 0) ~> (CycleInitializes(tasks) > 0 /\ ~isReconnecting)

\* a cycle that no event has ended has made its client.initialize() call and
\* the flag is down
C21_Witness == cycleOpen /\ CycleInitializes(tasks) > 0 /\ ~isReconnecting

\* C22: initializationAttempts never exceeds maxInitAttempts.
C22_CounterBounded == initializationAttempts <= maxInitAttempts

=============================================================================
